---- MODULE Spec2Model ----
(***************************************************************************)
(* Model of the nagui editors (graph, digraph, network): the module-level  *)
(* session state (current_*, original_*, file_id, info), the Dash callback *)
(* update_graph / update_digraph / update_network that arbitrates the      *)
(* seven buttons, and the result-file parsers of file.py.                  *)
(*                                                                         *)
(* The two global names current_* and original_* refer to networkx        *)
(* objects.  The model keeps the value each name denotes and, in `shared`, *)
(* whether both names refer to ONE object: `original_graph =               *)
(* current_graph` copies the reference, not the graph, so from then on a   *)
(* mutation through either name shows through the other.                   *)
(*                                                                         *)
(* Optional values (Python None, a missing attribute) are sequences of     *)
(* length 0 or 1; a line of a text file is the sequence of its             *)
(* whitespace-separated tokens; a message is a sequence of strings.        *)
(***************************************************************************)
EXTENDS Integers, Sequences, FiniteSets, TLC

\* ------------------------------------------------------------------ bounds
\* Vertex identifiers a user types into the text inputs.
Ids == {"A", "B"}
\* Largest weight, capacity or restriction a user types into a numeric input.
MaxWeight == 1
Weights == 1..MaxWeight
\* Runs are no longer offered once file_id has reached this value, ...
MaxGen == 2
\* ... in the network editor, whose models carry more attributes, this one.
MaxGenNetwork == 1
Generations(v) == IF v = "network" THEN MaxGenNetwork ELSE MaxGen

\* ------------------------------------------------------- optional values
None == <<>>
Some(x) == <<x>>
IsNone(o) == o = <<>>
Get(o) == o[1]

\* ------------------------------------------------------------ networkx
\* Attribute dictionaries of a node and of an edge; an absent key is None.
NoNodeAttrs ==
  [name |-> None, type |-> None, flow |-> None,
   min_flow |-> None, max_flow |-> None, info |-> None]

NoEdgeAttrs ==
  [weight |-> None, restriction |-> None, flow |-> None,
   cost |-> None, info |-> None]

\* dict.update(attr): keys present in `new` overwrite, the others are kept.
UpdateAttrs(old, new) ==
  [k \in DOMAIN old |-> IF IsNone(new[k]) THEN old[k] ELSE new[k]]

\* nx.Graph() / nx.DiGraph()
Graph == [directed |-> FALSE, node |-> <<>>, adj |-> <<>>]
DiGraph == [directed |-> TRUE, node |-> <<>>, adj |-> <<>>]

\* has_node answering that no vertex is there.
HasNodeNever(G, n) == FALSE

\* Graph.has_node(n)
has_node(G, n) == n \in DOMAIN G.node

has_edge(G, u, v) == <<u, v>> \in DOMAIN G.adj

\* Graph.add_node(n, **attr)
add_node(G, n, attr) ==
  [G EXCEPT !.node =
     [m \in DOMAIN G.node \cup {n} |->
        IF m = n
          THEN UpdateAttrs(IF has_node(G, n) THEN G.node[n] ELSE NoNodeAttrs, attr)
          ELSE G.node[m]]]

\* EdgeKeys storing an undirected edge in one direction only.
EdgeKeysOneWay(G, u, v) == {<<u, v>>}

\* The adjacency entries one edge u-v occupies: both directions in an
\* undirected graph (adj[u][v] and adj[v][u] are the same dictionary).
EdgeKeys(G, u, v) ==
  IF G.directed THEN {<<u, v>>} ELSE {<<u, v>>, <<v, u>>}

\* Graph.add_edge(u, v, **attr): creates missing endpoints, updates the
\* attributes of an edge that is already there.
add_edge(G, u, v, attr) ==
  LET nodes == [m \in DOMAIN G.node \cup {u, v} |->
                  IF m \in DOMAIN G.node THEN G.node[m] ELSE NoNodeAttrs]
      old == IF has_edge(G, u, v) THEN G.adj[<<u, v>>] ELSE NoEdgeAttrs
      new == UpdateAttrs(old, attr)
      keys == EdgeKeys(G, u, v)
  IN [G EXCEPT !.node = nodes,
               !.adj = [e \in DOMAIN G.adj \cup keys |->
                          IF e \in keys THEN new ELSE G.adj[e]]]

\* Graph.remove_node(n): the node and every edge incident to it.
\* remove_node leaving the incident edges behind.
RemoveNodeKeepEdges(G, n) ==
  [G EXCEPT !.node = [m \in DOMAIN G.node \ {n} |-> G.node[m]]]

\* Graph.remove_node(n): the vertex goes with its incident edges.
remove_node(G, n) ==
  [G EXCEPT !.node = [m \in DOMAIN G.node \ {n} |-> G.node[m]],
            !.adj = [e \in {k \in DOMAIN G.adj : k[1] # n /\ k[2] # n} |->
                       G.adj[e]]]

\* Graph.remove_edge(u, v)
remove_edge(G, u, v) ==
  [G EXCEPT !.adj = [e \in DOMAIN G.adj \ EdgeKeys(G, u, v) |-> G.adj[e]]]

\* Graph.clear(): empties the object in place, its class is kept.
clear(G) == [G EXCEPT !.node = <<>>, !.adj = <<>>]

number_of_nodes(G) == Cardinality(DOMAIN G.node)

\* An undirected edge is stored under two keys (a self loop under one).
number_of_edges(G) ==
  IF G.directed
    THEN Cardinality(DOMAIN G.adj)
    ELSE Cardinality({{k[1], k[2]} : k \in DOMAIN G.adj})

in_degree(G, v) == Cardinality({k \in DOMAIN G.adj : k[2] = v})

out_degree(G, v) == Cardinality({k \in DOMAIN G.adj : k[1] = v})

\* ------------------------------------------------------------- file.py
\* int(token): the tokens Python reads as an integer, with their value;
\* int() of any other token raises ValueError.
IntLiterals ==
  {<<"0", 0>>, <<"1", 1>>, <<"2", 2>>, <<"3", 3>>, <<"4", 4>>, <<"5", 5>>,
   <<"10", 10>>, <<"03", 3>>, <<"+2", 2>>, <<"-1", -1>>}

IsIntToken(t) == \E p \in IntLiterals : p[1] = t

int(t) == (CHOOSE p \in IntLiterals : p[1] = t)[2]

\* str(n) / '{}'.format(n) of an integer: its canonical decimal literal.
Canonical == {"0", "1", "2", "3", "4", "5", "10", "-1"}

str(n) == CHOOSE t \in Canonical : int(t) = n

\* readline handing back the last line again once the file is exhausted.
ReadlineWraps(f, i) ==
  IF i \in 1..Len(f) THEN f[i] ELSE IF Len(f) > 0 THEN f[Len(f)] ELSE <<>>

\* f.readline() on the i-th call: the tokens of line i; the empty string
\* at end of file and a blank line both split into no tokens.
readline(f, i) == IF i \in 1..Len(f) THEN f[i] ELSE <<>>

\* What a parser hands back, or the exception that left it.
Raise(e, i) ==
  [exc |-> e, result |-> Graph, isGraph |-> FALSE, info |-> <<>>, pos |-> i]

Return(g, isGraph, info, i) ==
  [exc |-> "", result |-> g, isGraph |-> isGraph, info |-> info, pos |-> i]

\* ExceptionResult that hands back the header line itself as the message.
ExceptionResultHeader(f) == Return(readline(f, 1), FALSE, <<>>, 1)

\* The not-a-graph branch of the three parsers: `isGraph = False` and
\* `graph = f.readline()`, the line after the header.
ExceptionResult(f) == Return(readline(f, 2), FALSE, <<>>, 2)

\* VertexRecord reading the bounds of a 6-field record in the other order.
VertexRecordSwapped(kind, G, item) ==
  CASE kind = "graph" ->
         [exc |-> "", graph |-> add_node(G, item[1], NoNodeAttrs)]
    [] kind = "digraph" ->
         IF Len(item) < 2
           THEN [exc |-> "IndexError", graph |-> G]
           ELSE [exc |-> "",
                 graph |-> add_node(G, item[1],
                             [NoNodeAttrs EXCEPT !.name = Some(item[2])])]
    [] kind = "network" ->
         CASE Len(item) = 4 ->
                [exc |-> "",
                 graph |-> add_node(G, item[1],
                             [NoNodeAttrs EXCEPT !.type = Some(item[2])])]
           [] Len(item) = 6 ->
                IF IsIntToken(item[4]) /\ IsIntToken(item[5])
                  THEN [exc |-> "",
                        graph |-> add_node(G, item[1],
                                    [NoNodeAttrs EXCEPT
                                       !.type = Some(item[2]),
                                       !.min_flow = Some(int(item[5])),
                                       !.max_flow = Some(int(item[4]))])]
                  ELSE [exc |-> "ValueError", graph |-> G]
           [] Len(item) = 5 ->
                IF IsIntToken(item[5])
                  THEN [exc |-> "",
                        graph |-> add_node(G, item[1],
                                    [NoNodeAttrs EXCEPT
                                       !.type = Some(item[2]),
                                       !.flow = Some(int(item[5]))])]
                  ELSE [exc |-> "ValueError", graph |-> G]
           [] OTHER -> [exc |-> "", graph |-> G]

\* One vertex record of the vertex section, by parser.
VertexRecord(kind, G, item) ==
  CASE kind = "graph" ->
         [exc |-> "", graph |-> add_node(G, item[1], NoNodeAttrs)]
    [] kind = "digraph" ->
         IF Len(item) < 2
           THEN [exc |-> "IndexError", graph |-> G]
           ELSE [exc |-> "",
                 graph |-> add_node(G, item[1],
                             [NoNodeAttrs EXCEPT !.name = Some(item[2])])]
    [] kind = "network" ->
         CASE Len(item) = 4 ->
                [exc |-> "",
                 graph |-> add_node(G, item[1],
                             [NoNodeAttrs EXCEPT !.type = Some(item[2])])]
           [] Len(item) = 6 ->
                IF IsIntToken(item[4]) /\ IsIntToken(item[5])
                  THEN [exc |-> "",
                        graph |-> add_node(G, item[1],
                                    [NoNodeAttrs EXCEPT
                                       !.type = Some(item[2]),
                                       !.min_flow = Some(int(item[4])),
                                       !.max_flow = Some(int(item[5]))])]
                  ELSE [exc |-> "ValueError", graph |-> G]
           [] Len(item) = 5 ->
                IF IsIntToken(item[5])
                  THEN [exc |-> "",
                        graph |-> add_node(G, item[1],
                                    [NoNodeAttrs EXCEPT
                                       !.type = Some(item[2]),
                                       !.flow = Some(int(item[5]))])]
                  ELSE [exc |-> "ValueError", graph |-> G]
           [] OTHER -> [exc |-> "", graph |-> G]

\* The vertex loop: records up to the line whose first token is `edges`.
\* Returns the graph and the number of the `edges` line.
RECURSIVE ReadVertices(_, _, _, _)
ReadVertices(kind, f, G, i) ==
  LET item == readline(f, i) IN
  IF item = <<>> THEN [exc |-> "IndexError", graph |-> G, pos |-> i]
  ELSE IF item[1] = "edges" THEN [exc |-> "", graph |-> G, pos |-> i]
  ELSE LET r == VertexRecord(kind, G, item) IN
       IF r.exc # "" THEN [exc |-> r.exc, graph |-> G, pos |-> i]
       ELSE ReadVertices(kind, f, r.graph, i + 1)

\* EdgeRecord that skips a record it cannot decode instead of raising.
EdgeRecordLenient(kind, G, item) ==
  IF \/ Len(item) # (IF kind = "network" THEN 6 ELSE 3)
     \/ \E k \in 3..Len(item) : ~IsIntToken(item[k])
    THEN [exc |-> "", graph |-> G]
    ELSE [exc |-> "",
          graph |-> add_edge(G, item[1], item[2],
                      [NoEdgeAttrs EXCEPT !.weight = Some(int(item[3]))])]

\* One edge record of the edge section, by parser.
EdgeRecord(kind, G, item) ==
  IF kind \in {"graph", "digraph"}
    THEN IF Len(item) # 3 \/ ~IsIntToken(item[3])
           THEN [exc |-> "ValueError", graph |-> G]
           ELSE [exc |-> "",
                 graph |-> add_edge(G, item[1], item[2],
                             [NoEdgeAttrs EXCEPT !.weight = Some(int(item[3]))])]
    ELSE IF Len(item) # 6
              \/ \E k \in 3..6 : ~IsIntToken(item[k])
           THEN [exc |-> "ValueError", graph |-> G]
           ELSE [exc |-> "",
                 graph |-> add_edge(G, item[1], item[2],
                             [weight |-> Some(int(item[3])),
                              restriction |-> Some(int(item[4])),
                              flow |-> Some(int(item[5])),
                              cost |-> Some(int(item[6])),
                              info |-> Some(<<"r:", item[4], ", f:", item[5],
                                              ", q:", item[3], ", c:", item[6]>>)])]

\* The edge loop: records up to the line whose first token is `extra` or
\* `end`.  Returns the graph and the number of that line.
RECURSIVE ReadEdges(_, _, _, _)
ReadEdges(kind, f, G, i) ==
  LET item == readline(f, i) IN
  IF item = <<>> THEN [exc |-> "IndexError", graph |-> G, pos |-> i]
  ELSE IF item[1] \in {"extra", "end"} THEN [exc |-> "", graph |-> G, pos |-> i]
  ELSE LET r == EdgeRecord(kind, G, item) IN
       IF r.exc # "" THEN [exc |-> r.exc, graph |-> G, pos |-> i]
       ELSE ReadEdges(kind, f, r.graph, i + 1)

\* ReadBody taking the `extra` line itself for the trailing info.
ReadBodyExtraLine(kind, f, G) ==
  LET v == ReadVertices(kind, f, G, 3) IN
  IF v.exc # "" THEN Raise(v.exc, v.pos)
  ELSE LET e == ReadEdges(kind, f, v.graph, v.pos + 1) IN
       IF e.exc # "" THEN Raise(e.exc, e.pos)
       ELSE IF readline(f, e.pos)[1] = "extra"
              THEN Return(e.graph, TRUE, readline(f, e.pos), e.pos)
              ELSE Return(e.graph, TRUE, <<>>, e.pos)

\* The part of the three parsers under `if isGraph:`; line 2 is skipped.
ReadBody(kind, f, G) ==
  LET v == ReadVertices(kind, f, G, 3) IN
  IF v.exc # "" THEN Raise(v.exc, v.pos)
  ELSE LET e == ReadEdges(kind, f, v.graph, v.pos + 1) IN
       IF e.exc # "" THEN Raise(e.exc, e.pos)
       ELSE IF readline(f, e.pos)[1] = "extra"
              THEN Return(e.graph, TRUE, readline(f, e.pos + 1), e.pos + 1)
              ELSE Return(e.graph, TRUE, <<>>, e.pos)

\* load_graph building a directed model under the header `graph` too.
LoadGraphDirected(file) ==
  IF IsNone(file) THEN Raise("FileNotFoundError", 0)
  ELSE LET f == Get(file) IN
       IF readline(f, 1) = <<>> THEN Raise("IndexError", 1)
       ELSE IF readline(f, 1)[1] \in {"graph", "digraph"}
              THEN ReadBody("graph", f, DiGraph)
              ELSE ExceptionResult(f)

\* load_graph(file_id); `file` is None when ./data/<file_id>-final.txt
\* does not exist.
load_graph(file) ==
  IF IsNone(file) THEN Raise("FileNotFoundError", 0)
  ELSE LET f == Get(file) IN
       IF readline(f, 1) = <<>> THEN Raise("IndexError", 1)
       ELSE LET header == readline(f, 1)[1] IN
            IF header = "graph" THEN ReadBody("graph", f, Graph)
            ELSE IF header = "digraph" THEN ReadBody("graph", f, DiGraph)
            ELSE ExceptionResult(f)

\* load_digraph choosing the model by the header, the way load_graph does.
LoadDigraphByHeader(file) == load_graph(file)

\* load_digraph(file_id)
load_digraph(file) ==
  IF IsNone(file) THEN Raise("FileNotFoundError", 0)
  ELSE LET f == Get(file) IN
       IF readline(f, 1) = <<>> THEN Raise("IndexError", 1)
       ELSE LET header == readline(f, 1)[1] IN
            IF header # "digraph" THEN ExceptionResult(f)
            ELSE ReadBody("digraph", f, DiGraph)

load_network(file) ==
  IF IsNone(file) THEN Raise("FileNotFoundError", 0)
  ELSE LET f == Get(file) IN
       IF readline(f, 1) = <<>> THEN Raise("IndexError", 1)
       ELSE LET header == readline(f, 1)[1] IN
            IF header = "exception" THEN ExceptionResult(f)
            ELSE ReadBody("network", f, DiGraph)

\* ----------------------------------------------------- executor output
\* Result files the external executor may leave in ./data/<file_id>-final.txt:
\* a well-formed result in the format of each editor's parser, ...
OkFile(v) ==
  CASE v = "graph" ->
         << <<"graph">>, <<"vertices">>, <<"A">>, <<"B">>, <<"edges">>,
            <<"A", "B", "3">>, <<"end">> >>
    [] v = "digraph" ->
         << <<"digraph">>, <<"vertices">>, <<"A", "A">>, <<"B", "B">>,
            <<"edges">>, <<"B", "A", "3">>, <<"extra">>, <<"Distance:", "3">> >>
    [] v = "network" ->
         << <<"network">>, <<"vertices">>, <<"A", "sink", "_", "_">>,
            <<"B", "pass", "_", "_", "10">>, <<"edges">>,
            <<"A", "B", "3", "1", "2", "5">>, <<"end">> >>

\* ... the executor's own report of a failed algorithm, ...
ExceptionFile == << <<"exception">>, <<"No", "path", "exists.">> >>

\* ... a result with a non-integer token in a numeric field of an edge, ...
BadNumberFile(v) ==
  CASE v = "graph" ->
         << <<"graph">>, <<"vertices">>, <<"A">>, <<"B">>, <<"edges">>,
            <<"A", "B", "x">>, <<"end">> >>
    [] v = "digraph" ->
         << <<"digraph">>, <<"vertices">>, <<"A", "A">>, <<"B", "B">>,
            <<"edges">>, <<"B", "A", "3.5">>, <<"end">> >>
    [] v = "network" ->
         << <<"network">>, <<"vertices">>, <<"A", "sink", "_", "_">>,
            <<"B", "pass", "_", "_">>, <<"edges">>,
            <<"A", "B", "3", "1", "x", "5">>, <<"end">> >>

\* ... and a result whose edge record has the wrong number of fields.
BadArityFile(v) ==
  CASE v = "graph" ->
         << <<"graph">>, <<"vertices">>, <<"A">>, <<"B">>, <<"edges">>,
            <<"A", "B">>, <<"end">> >>
    [] v = "digraph" ->
         << <<"digraph">>, <<"vertices">>, <<"A", "A">>, <<"B", "B">>,
            <<"edges">>, <<"B", "A", "3", "0">>, <<"end">> >>
    [] v = "network" ->
         << <<"network">>, <<"vertices">>, <<"A", "sink", "_", "_">>,
            <<"B", "pass", "_", "_">>, <<"edges">>,
            <<"A", "B", "3">>, <<"end">> >>

MalformedFiles(v) == {BadNumberFile(v), BadArityFile(v)}

\* A well-formed network result whose edge has capacity 1 and restriction 2.
OverRestrictedFile ==
  << <<"network">>, <<"vertices">>, <<"A", "source", "_", "_">>,
     <<"B", "sink", "_", "_">>, <<"edges">>,
     <<"A", "B", "1", "2", "0", "5">>, <<"end">> >>

\* The result files the runs of each editor's session are given.
ResultFiles(v) ==
  {OkFile(v), ExceptionFile}
    \cup (IF v = "network" THEN {OverRestrictedFile} ELSE MalformedFiles(v))

\* What one invocation of the executor can do: the binary cannot be
\* started, it exits without writing a result file, or it writes one.
ExecOutcomes(v) ==
  {[started |-> FALSE, file |-> None], [started |-> TRUE, file |-> None]}
    \cup {[started |-> TRUE, file |-> Some(f)] : f \in ResultFiles(v)}

\* ------------------------------------------------------------- session
VARIABLES
  variant,    \* which editor this session is: "graph", "digraph", "network"
  current,    \* value of current_graph / current_digraph / current_network
  original,   \* value of original_graph / original_digraph / original_network
  shared,     \* the two names refer to the same object
  file_id,    \* file_id
  info,       \* info, the message slot
  raised,     \* exception that left the last callback, "" if none
  final,      \* file_id -> contents of ./data/<file_id>-final.txt, or None
  saved,      \* the file_ids for which ./data/<file_id>.json was written
  buttons,    \* buttons: the timestamps of the last callback invocation
  cmd,        \* the last command: the branch that ran (op) and, in exec, how
              \* the executor went (run) or how the latest run had ended (reset)
  hist,       \* history of the runs of this session
  reader      \* a parser call followed line by line: the file, the number of
              \* lines consumed, the loop it is in, the model built so far and
              \* what it handed back; idle while no call is being followed

vars ==
  <<variant, current, original, shared, file_id, info, raised, final, saved,
    buttons, cmd, hist, reader>>

Variants == {"graph", "digraph", "network"}

\* nx.Graph() for the graph editor, nx.DiGraph() for the other two.
Empty(v) == IF v = "graph" THEN Graph ELSE DiGraph

\* The value the name current_graph / original_graph denotes.
Cur == current
Orig == original

\* Mutate with every method call on current reaching original's object too.
MutateBoth(g) ==
  /\ current' = g
  /\ original' = g
  /\ shared' = shared

\* A method call that mutates the object current refers to, leaving it with
\* value g: original shows the same value when it is the same object.
Mutate(g) ==
  /\ current' = g
  /\ original' = IF shared THEN g ELSE original
  /\ shared' = shared

Session == <<current, original, shared>>

\* No parser call is being followed.
NoCall == [at |-> "idle", file |-> <<>>, pos |-> 0, graph |-> Graph, out |-> None]

Init ==
  /\ variant \in Variants
  /\ current = Empty(variant)
  /\ original = Empty(variant)
  /\ shared = FALSE
  /\ file_id = 0
  /\ info = <<>>
  /\ raised = ""
  /\ final = [i \in 0..(MaxGen + MaxGenNetwork) |-> None]
  /\ saved = {}
  /\ buttons = [i \in 1..7 |-> None]
  /\ cmd = [op |-> "init", exec |-> "-"]
  /\ hist = [pre |-> None, res |-> "-", since |-> "edit"]
  /\ reader = NoCall

\* --------------------------------------------------------- arbitration
\* The seven n_clicks_timestamp inputs, in declaration order.
BtnVertex == 1
BtnEdge == 2
BtnRmV == 3
BtnRmE == 4
BtnRun == 5
BtnReset == 6
BtnEmpty == 7

\* buttons = [btn if btn is not None else 0 for btn in (...)]
Stamp(b) == IF IsNone(b) THEN 0 ELSE Get(b)

\* argmax returning the last occurrence of the maximum.
argmaxLast(btn) ==
  CHOOSE i \in 1..7 :
    /\ \A j \in 1..7 : Stamp(btn[j]) <= Stamp(btn[i])
    /\ \A j \in (i + 1)..7 : Stamp(btn[j]) < Stamp(btn[i])

\* np.argmax(buttons): the first position holding the maximum.
argmax(btn) ==
  CHOOSE i \in 1..7 :
    /\ \A j \in 1..7 : Stamp(btn[j]) <= Stamp(btn[i])
    /\ \A j \in 1..(i - 1) : Stamp(btn[j]) < Stamp(btn[i])

\* Pressed without the presence test `btn_x is not None`.
PressedUnguarded(btn, i) == argmax(btn) = i

\* Pressed without the test `btn_pressed == x`.
PressedAny(btn, i) == ~IsNone(btn[i])

\* `btn_x is not None and btn_pressed == x`
Pressed(btn, i) == ~IsNone(btn[i]) /\ argmax(btn) = i

NoButton == [i \in 1..7 |-> None]

\* The timestamp vectors the callback is invoked with: nothing clicked yet;
\* one button clicked; add vertex and clear carrying the same timestamp;
\* reset clicked after run; add edge clicked while add vertex and remove
\* vertex carry timestamp 0.
ButtonVectors ==
  {NoButton}
    \cup {[NoButton EXCEPT ![i] = Some(5)] :
            i \in {BtnRmV, BtnRmE, BtnRun, BtnEmpty}}
    \cup {[NoButton EXCEPT ![BtnVertex] = Some(5), ![BtnEmpty] = Some(5)],
          [NoButton EXCEPT ![BtnRun] = Some(3), ![BtnReset] = Some(5)],
          [NoButton EXCEPT ![BtnVertex] = Some(0), ![BtnEdge] = Some(5),
                           ![BtnRmV] = Some(0)]}

\* Text a user can leave in an identifier field.
Texts == Ids \cup {""}

\* ------------------------------------------------------------- history
\* hist records, for the properties, what the session went through:
\*   pre     the value of current when the latest run was attempted
\*   res     how the latest run attempt ended: "-" (none yet), "exception",
\*           "raise", "ok", or "ok2" when the attempt before it had succeeded
\*           too and only edit and empty commands came between the two
\*   since   the commands applied since that attempt: "edit" (none, or only
\*           add/remove commands), "clear" (those and empty), "other"
\* Once a command of another kind has come, the attempt is history: pre is
\* dropped and res reads "gone".
Since(kind) ==
  IF kind = "edit" THEN hist
  ELSE IF kind = "clear" /\ hist.since # "other"
    THEN [hist EXCEPT !.since = "clear"]
  ELSE [pre |-> None,
        res |-> IF hist.res = "-" THEN "-" ELSE "gone",
        since |-> "other"]

AfterRun(res) ==
  [pre |-> Some(Cur),
   res |-> IF res = "ok" /\ hist.res \in {"ok", "ok2"} THEN "ok2" ELSE res,
   since |-> "edit"]

Did(op) == [op |-> op, exec |-> "-"]

\* The noun the messages of each editor use.
Noun == variant

\* ------------------------------------------------ update_vertices_info
\* The role of a vertex by its degrees, and the sign its label starts with.
Role(G, v) ==
  IF in_degree(G, v) = 0 THEN "source"
  ELSE IF out_degree(G, v) = 0 THEN "sink"
  ELSE "pass"

Sign(role) ==
  IF role = "source" THEN <<"+ ">>
  ELSE IF role = "sink" THEN <<"- ">>
  ELSE <<>>

\* '<sign>{}, {}'.format(v, flow), '<sign>{}, {}/{}'.format(v, min, max) or
\* '<sign>{}'.format(v), by the attributes the vertex carries.
Label(role, v, attrs) ==
  IF ~IsNone(attrs.flow)
    THEN Sign(role) \o <<v, ", ", str(Get(attrs.flow))>>
  ELSE IF ~IsNone(attrs.min_flow)
    THEN Sign(role) \o <<v, ", ", str(Get(attrs.min_flow)), "/",
                         str(Get(attrs.max_flow))>>
  ELSE Sign(role) \o <<v>>

\* update_vertices_info leaving every vertex as it finds it.
UpdateVerticesInfoSkipped(G, nodes) == G

\* update_vertices_info(network, vertex): recomputes type and info of the
\* vertices in `nodes` (every vertex when the argument is None).
update_vertices_info(G, nodes) ==
  [G EXCEPT !.node =
     [v \in DOMAIN G.node |->
        IF v \in nodes
          THEN [G.node[v] EXCEPT
                  !.type = Some(Role(G, v)),
                  !.info = Some(Label(Role(G, v), v, G.node[v]))]
          ELSE G.node[v]]]

\* ----------------------------------------------------- update_* callback
\* Every branch starts from `info = ''`; a branch whose field conditions
\* fail falls through the elif chain and returns the elements unchanged.
Files == <<final, saved>>

\* add vertex (graph and digraph editors)
AddVertex(btn, vertex_value) ==
  /\ variant \in {"graph", "digraph"}
  /\ Pressed(btn, BtnVertex)
  /\ buttons' = btn
  /\ IF vertex_value # ""
       THEN IF ~has_node(Cur, vertex_value)
              THEN /\ Mutate(add_node(Cur, vertex_value,
                                   IF variant = "digraph"
                                     THEN [NoNodeAttrs EXCEPT !.name = Some(vertex_value)]
                                     ELSE NoNodeAttrs))
                   /\ info' = <<>>
              ELSE /\ info' = <<"Vertex ", vertex_value, " is already on the ", Noun, ".">>
                   /\ UNCHANGED Session
       ELSE /\ info' = <<>>
            /\ UNCHANGED Session
  /\ raised' = ""
  /\ cmd' = Did("add_vertex")
  /\ hist' = Since("edit")
  /\ UNCHANGED <<variant, reader, file_id, Files>>

\* The messages of add edge and remove edge about missing endpoints.
MissingVertex(G, s, t) ==
  IF ~has_node(G, s) /\ has_node(G, t)
    THEN <<"Vertex ", s, " is not on the ", Noun, ".">>
  ELSE IF has_node(G, s) /\ ~has_node(G, t)
    THEN <<"Vertex ", t, " is not on the ", Noun, ".">>
  ELSE <<"Vertices ", s, " and ", t, " are not on the ", Noun, ".">>

\* The endpoint test of add edge passing whatever the model holds.
EndpointsUnchecked(G, s, t) == TRUE

\* `current_graph.has_node(source) and current_graph.has_node(terminus)`
EndpointsPresent(G, s, t) == has_node(G, s) /\ has_node(G, t)

\* add edge (graph and digraph editors); weight is None or an integer
AddEdge(btn, source, terminus, weight) ==
  /\ variant \in {"graph", "digraph"}
  /\ Pressed(btn, BtnEdge)
  /\ buttons' = btn
  /\ IF source # "" /\ terminus # "" /\ ~IsNone(weight)
       THEN IF EndpointsPresent(Cur, source, terminus)
              THEN /\ Mutate(add_edge(Cur, source, terminus,
                                   [NoEdgeAttrs EXCEPT !.weight = weight]))
                   /\ info' = <<>>
              ELSE /\ info' = MissingVertex(Cur, source, terminus)
                   /\ UNCHANGED Session
       ELSE /\ info' = <<>>
            /\ UNCHANGED Session
  /\ raised' = ""
  /\ cmd' = Did("add_edge")
  /\ hist' = Since("edit")
  /\ UNCHANGED <<variant, reader, file_id, Files>>

\* remove vertex
RemoveVertex(btn, rm_vertex) ==
  /\ Pressed(btn, BtnRmV)
  /\ buttons' = btn
  /\ IF rm_vertex # ""
       THEN IF has_node(Cur, rm_vertex)
              THEN /\ Mutate(IF variant = "network"
                                   THEN update_vertices_info(remove_node(Cur, rm_vertex),
                                                             DOMAIN remove_node(Cur, rm_vertex).node)
                                   ELSE remove_node(Cur, rm_vertex))
                   /\ info' = <<>>
              ELSE /\ info' = <<"Vertex ", rm_vertex, " is not on the ", Noun, ".">>
                   /\ UNCHANGED Session
       ELSE /\ info' = <<>>
            /\ UNCHANGED Session
  /\ raised' = ""
  /\ cmd' = Did("rm_vertex")
  /\ hist' = Since("edit")
  /\ UNCHANGED <<variant, reader, file_id, Files>>

\* remove edge
RemoveEdge(btn, rm_source, rm_terminus) ==
  /\ Pressed(btn, BtnRmE)
  /\ buttons' = btn
  /\ IF rm_source # "" /\ rm_terminus # ""
       THEN IF /\ has_node(Cur, rm_source)
               /\ has_node(Cur, rm_terminus)
               /\ has_edge(Cur, rm_source, rm_terminus)
              THEN /\ Mutate(IF variant = "network"
                                   THEN update_vertices_info(
                                          remove_edge(Cur, rm_source, rm_terminus),
                                          {rm_source, rm_terminus})
                                   ELSE remove_edge(Cur, rm_source, rm_terminus))
                   /\ info' = <<>>
              ELSE /\ info' =
                        IF has_node(Cur, rm_source) /\ has_node(Cur, rm_terminus)
                          THEN <<"There isn't an edge between vertices ",
                                 rm_source, " and ", rm_terminus, ".">>
                          ELSE MissingVertex(Cur, rm_source, rm_terminus)
                   /\ UNCHANGED Session
       ELSE /\ info' = <<>>
            /\ UNCHANGED Session
  /\ raised' = ""
  /\ cmd' = Did("rm_edge")
  /\ hist' = Since("edit")
  /\ UNCHANGED <<variant, reader, file_id, Files>>

\* RestrictionsValid without the test against 0.
RestrictionsOrdered(min_f, max_f) == min_f <= max_f

\* `if min_f >= 0 and min_f <= max_f` of the id/min/max form.
RestrictionsValid(min_f, max_f) == min_f >= 0 /\ min_f <= max_f

\* add vertex (network editor); input is vertex_value.split('/')
AddVertexN(btn, input) ==
  /\ variant = "network"
  /\ Pressed(btn, BtnVertex)
  /\ buttons' = btn
  /\ IF input # <<"">> /\ ~has_node(Cur, input[1])
       THEN CASE Len(input) = 1 ->
                   /\ Mutate(add_node(Cur, input[1],
                                   [NoNodeAttrs EXCEPT
                                      !.type = Some("source"),
                                      !.info = Some(<<"+ ", input[1]>>)]))
                   /\ info' = <<>>
                   /\ raised' = ""
              [] Len(input) = 2 ->
                   IF IsIntToken(input[2])
                     THEN /\ Mutate(add_node(Cur, input[1],
                                          [NoNodeAttrs EXCEPT
                                             !.type = Some("source"),
                                             !.flow = Some(int(input[2])),
                                             !.info = Some(<<"+ ", input[1], ", ",
                                                             str(int(input[2]))>>)]))
                          /\ info' = <<>>
                          /\ raised' = ""
                     ELSE /\ raised' = "ValueError"
                          /\ info' = <<>>
                          /\ UNCHANGED Session
              [] Len(input) >= 3 ->
                   IF IsIntToken(input[2]) /\ IsIntToken(input[3])
                     THEN LET min_f == int(input[2])
                              max_f == int(input[3])
                          IN IF RestrictionsValid(min_f, max_f)
                               THEN /\ Mutate(add_node(Cur, input[1],
                                                    [NoNodeAttrs EXCEPT
                                                       !.type = Some("source"),
                                                       !.min_flow = Some(min_f),
                                                       !.max_flow = Some(max_f),
                                                       !.info = Some(<<"+ ", input[1], ", ",
                                                                       str(min_f), "/",
                                                                       str(max_f)>>)]))
                                    /\ info' = <<>>
                                    /\ raised' = ""
                               ELSE /\ info' = <<"Invalid restrictions for vertex ",
                                                 input[1], ".">>
                                    /\ raised' = ""
                                    /\ UNCHANGED Session
                     ELSE /\ raised' = "ValueError"
                          /\ info' = <<>>
                          /\ UNCHANGED Session
       ELSE /\ info' = IF input # <<"">>
                         THEN <<"Vertex ", input[1], " is already on the network.">>
                         ELSE <<>>
            /\ raised' = ""
            /\ UNCHANGED Session
  /\ cmd' = Did("add_vertex")
  /\ hist' = Since("edit")
  /\ UNCHANGED <<variant, reader, file_id, Files>>

\* add edge (network editor); the numeric fields are None or an integer
AddEdgeN(btn, source, terminus, weight, restriction, cost) ==
  /\ variant = "network"
  /\ Pressed(btn, BtnEdge)
  /\ buttons' = btn
  /\ IF /\ source # "" /\ terminus # ""
        /\ ~IsNone(weight) /\ ~IsNone(restriction) /\ ~IsNone(cost)
       THEN LET w == Get(weight)
                r == Get(restriction)
            IN IF /\ has_node(Cur, source) /\ has_node(Cur, terminus)
                  /\ w >= r /\ r >= 0 /\ w >= 0
                 THEN /\ Mutate(update_vertices_info(
                                      update_vertices_info(
                                        add_edge(Cur, source, terminus,
                                          [weight |-> weight,
                                           restriction |-> restriction,
                                           flow |-> Some(0),
                                           cost |-> cost,
                                           info |-> Some(<<"r:", str(r), ", f:", str(0),
                                                           ", q:", str(w), ", c:",
                                                           str(Get(cost))>>)]),
                                        {source}),
                                      {terminus}))
                      /\ info' = <<>>
                 ELSE /\ info' =
                           IF ~(has_node(Cur, source) /\ has_node(Cur, terminus))
                             THEN MissingVertex(Cur, source, terminus)
                           ELSE IF w < r
                             THEN <<"The capacity of the edge can't be less than the restriction.">>
                           ELSE IF r < 0
                             THEN <<"The minimum restriction can't be negative.">>
                           ELSE <<"The capacity of the edge can't be negative.">>
                      /\ UNCHANGED Session
       ELSE /\ info' = <<>>
            /\ UNCHANGED Session
  /\ raised' = ""
  /\ cmd' = Did("add_edge")
  /\ hist' = Since("edit")
  /\ UNCHANGED <<variant, reader, file_id, Files>>

\* The dropdown's algorithm with the start vertex (digraph) or target flow
\* (network) field, None where the editor has no such field or it is unset.
RunInputs ==
  [graph |-> {<<"kruskal", None>>},
   digraph |-> {<<"dijkstra", Some("A")>>, <<"dijkstra", Some("")>>,
                <<"floyd", None>>},
   network |-> {<<"ford", None>>, <<"mincycle", None>>}]

\* The condition under which the run branch of each editor goes on to
\* call the executor.
RunAllowed(algorithm, extra) ==
  CASE variant = "graph" -> TRUE
    [] variant = "digraph" ->
         \/ algorithm = "dijkstra" /\ extra \notin {Some(""), Some(" "), None}
         \/ algorithm = "floyd"
    [] variant = "network" ->
         \/ /\ algorithm \in {"mincycle", "minpaths"}
            /\ extra \notin {Some(""), Some(" "), None}
         \/ algorithm \in {"ford", "simplex"}

\* The path save_graph returns for generation n.
SavePath(n) == <<"./data/", str(n), ".json">>

\* Argv with the generation after file_id handed to the executor.
ArgvNextGeneration(algorithm, extra) ==
  <<SavePath(file_id), str(file_id + 1), algorithm, "0">>

\* The argument list each editor hands to sbp.run, after the program's
\* name: the graph editor stops at the algorithm; the digraph editor adds
\* the start vertex (dijkstra) or '0'; the network editor adds '0' (ford,
\* simplex) or the target flow.
Argv(algorithm, extra) ==
  CASE variant = "graph" ->
         <<SavePath(file_id), str(file_id), algorithm>>
    [] variant = "digraph" ->
         <<SavePath(file_id), str(file_id), algorithm,
           IF algorithm = "dijkstra" THEN Get(extra) ELSE "0">>
    [] variant = "network" ->
         <<SavePath(file_id), str(file_id), algorithm,
           IF algorithm \in {"ford", "simplex"} THEN "0"
           ELSE str(Get(extra))>>

\* The parser each editor calls.
Load(file) ==
  CASE variant = "graph" -> load_graph(file)
    [] variant = "digraph" -> load_digraph(file)
    [] variant = "network" -> load_network(file)

\* Snapshot with the assignment placed after the commit: original would name
\* the object the run has just committed.
SnapshotAfterCommit(cur, committed) == committed

\* `original_graph = current_graph`: the name original is bound, before the
\* executor is called, to the object current names; `committed` is the
\* object current names once the run is over.
Snapshot(cur, committed) == cur

\* NextFileId with the increment forgotten.
NextFileIdKept(f) == f

\* `file_id += 1` of a committed run.
NextFileId(f) == f + 1

\* RollbackFileId with no floor.
RollbackFileIdUnguarded(f) == f - 1

\* RollbackFileId with the floor at 0 instead of 1.
RollbackFileIdToZero(f) == IF f > 0 THEN f - 1 ELSE f

\* `if file_id > 1: file_id -= 1` of reset.
RollbackFileId(f) == IF f > 1 THEN f - 1 ELSE f

\* run: save_graph, original = current, the executor, load_*, commit;
\* `outcomes` is what the executor may do on this invocation. The executor
\* leaves its result in the -final.txt of the generation it was handed as
\* its second argument; load_* opens the one of file_id.
\* Unless the run commits, current is not rebound and the two names are left
\* on one object; a commit binds current to the object the parser built.
RunOn(btn, algorithm, extra, outcomes) ==
  /\ Pressed(btn, BtnRun)
  /\ buttons' = btn
  /\ file_id < Generations(variant)
  /\ IF RunAllowed(algorithm, extra)
       THEN \E outcome \in outcomes :
            /\ saved' = saved \cup {file_id}
            /\ IF ~outcome.started
                 THEN /\ raised' = "FileNotFoundError"
                      /\ info' = <<>>
                      /\ cmd' = [op |-> "run", exec |-> "nostart"]
                      /\ hist' = AfterRun("raise")
                      /\ shared' = TRUE
                      /\ UNCHANGED <<current, file_id, final>>
                 ELSE /\ final' = IF IsNone(outcome.file)
                                    THEN final
                                    ELSE [final EXCEPT
                                            ![int(Argv(algorithm, extra)[2])] =
                                               outcome.file]
                      /\ cmd' = [op |-> "run",
                                 exec |-> IF IsNone(outcome.file) THEN "nowrite"
                                          ELSE "wrote"]
                      /\ LET r == Load(final'[file_id]) IN
                         IF r.exc # ""
                           THEN /\ raised' = r.exc
                                /\ info' = <<>>
                                /\ hist' = AfterRun("raise")
                                /\ shared' = TRUE
                                /\ UNCHANGED <<current, file_id>>
                         ELSE IF r.isGraph
                           THEN /\ current' =
                                     IF variant = "network"
                                       THEN update_vertices_info(
                                              r.result, DOMAIN r.result.node)
                                       ELSE r.result
                                /\ shared' = FALSE
                                /\ file_id' = NextFileId(file_id)
                                /\ info' = r.info
                                /\ raised' = ""
                                /\ hist' = AfterRun("ok")
                           ELSE /\ info' = r.result
                                /\ raised' = ""
                                /\ hist' = AfterRun("exception")
                                /\ shared' = TRUE
                                /\ UNCHANGED <<current, file_id>>
            /\ original' = Snapshot(current, current')
       ELSE /\ info' = <<>>
            /\ raised' = ""
            /\ cmd' = [op |-> "run", exec |-> "skipped"]
            /\ UNCHANGED <<Session, file_id, Files, hist>>
  /\ UNCHANGED <<variant, reader>>

\* The run branch with the executor left to do whatever it can do.
Run(btn, algorithm, extra) ==
  RunOn(btn, algorithm, extra, ExecOutcomes(variant))

\* reset: current = original, file_id one down but not below 1
Reset(btn) ==
  /\ Pressed(btn, BtnReset)
  /\ buttons' = btn
  /\ current' = original
  /\ shared' = TRUE
  /\ file_id' = RollbackFileId(file_id)
  /\ info' = <<>>
  /\ raised' = ""
  /\ cmd' = [op |-> "reset", exec |-> hist.res]
  /\ hist' = Since("reset")
  /\ UNCHANGED <<variant, reader, original, Files>>

\* empty: current.clear()
EmptyGraph(btn) ==
  /\ Pressed(btn, BtnEmpty)
  /\ buttons' = btn
  /\ Mutate(clear(Cur))
  /\ info' = <<>>
  /\ raised' = ""
  /\ cmd' = Did("empty")
  /\ hist' = Since("clear")
  /\ UNCHANGED <<variant, reader, file_id, Files>>

\* No timestamp is present: no branch of the elif chain is taken.
Idle(btn) ==
  /\ \A i \in 1..7 : ~Pressed(btn, i)
  /\ buttons' = btn
  /\ info' = <<>>
  /\ raised' = ""
  /\ cmd' = Did("idle")
  /\ UNCHANGED <<variant, reader, Session, file_id, Files, hist>>

\* display_page: entering the editor's page clears the current object.
display_page ==
  /\ Mutate(clear(Cur))
  /\ raised' = ""
  /\ cmd' = Did("display_page")
  /\ hist' = Since("page")
  /\ UNCHANGED <<variant, reader, file_id, info, Files, buttons>>

\* -------------------------------------------------------- specification
\* Values of the numeric fields, valid and not.
Numbers == {None} \cup {Some(w) : w \in Weights}

\* Source and terminus texts of the edge forms.
EdgeInputs == {<<"A", "B">>, <<"B", "A">>, <<"", "B">>, <<"A", "">>}

\* <<capacity, restriction, cost>> of the network's edge form.
NetEdgeNumbers ==
  {<<Some(w), Some(0), Some(1)>> : w \in Weights}
    \cup {<<Some(1), Some(2), Some(1)>>, <<Some(1), Some(-1), Some(1)>>,
          <<Some(-1), Some(-1), Some(1)>>, <<Some(1), None, Some(1)>>}

\* vertex_value.split('/') for the texts typed into the network's field.
NetVertexInputs ==
  {<<"A">>, <<"">>, <<"B", "1", "2">>, <<"B", "2", "1">>, <<"A", "x">>}

\* What the network's edge form is submitted with: accepted numbers on every
\* pair of identifier texts, the other numbers on the pair A, B.
NetEdgeForms ==
  {f \in EdgeInputs \X NetEdgeNumbers :
     \/ f[1] = <<"A", "B">>
     \/ \E w \in Weights : f[2] = <<Some(w), Some(0), Some(1)>>}

\* The branches the three callbacks have in common.
Common(btn) ==
  \/ \E v \in Texts : RemoveVertex(btn, v)
  \/ \E e \in EdgeInputs : RemoveEdge(btn, e[1], e[2])
  \/ \E i \in RunInputs[variant] : Run(btn, i[1], i[2])
  \/ Reset(btn)
  \/ EmptyGraph(btn)
  \/ Idle(btn)

\* update_graph and update_digraph
update_graph ==
  \E btn \in ButtonVectors :
    \/ \E v \in Texts : AddVertex(btn, v)
    \/ \E e \in EdgeInputs, w \in Numbers : AddEdge(btn, e[1], e[2], w)
    \/ Common(btn)

\* update_network
update_network ==
  \E btn \in ButtonVectors :
    \/ \E input \in NetVertexInputs : AddVertexN(btn, input)
    \/ \E f \in NetEdgeForms :
         AddEdgeN(btn, f[1][1], f[1][2], f[2][1], f[2][2], f[2][3])
    \/ Common(btn)

InitOf(v) == Init /\ variant = v

\* The graph editor (nagui_g.py).
NextGraph == update_graph \/ display_page
SpecGraph == InitOf("graph") /\ [][NextGraph]_vars

\* The digraph editor (nagui_d.py).
SpecDigraph == InitOf("digraph") /\ [][NextGraph]_vars

\* The network editor (nagui_n.py).
NextNetwork == update_network \/ display_page
SpecNetwork == InitOf("network") /\ [][NextNetwork]_vars

\* ------------------------------------------------- parsing at large
\* The sessions of SpecParse build a model with add commands and then run
\* once; the executor answers the run with any file of ParseFiles, or with
\* the file an executor that changes nothing writes for the model it was
\* given (IdentityFile).

\* Header tokens the executor's file may start with, by editor.
Headers(v) ==
  CASE v = "graph" -> {"graph", "digraph", "exception"}
    [] v = "digraph" -> {"digraph", "graph", "exception"}
    [] v = "network" -> {"network", "graph", "exception"}

\* Vertex sections in the record shape of each parser: none, the listed
\* vertices of the examples and, for the network, records of 3 and 7 fields.
VertexSections(v) ==
  CASE v = "graph" -> {<<>>, << <<"A">>, <<"B">> >>, << <<"B">> >>}
    [] v = "digraph" -> {<<>>, << <<"A", "A">>, <<"B", "b">> >>, << <<"B", "B">> >>}
    [] v = "network" ->
         {<<>>,
          << <<"S", "source", "_", "_", "10">>, <<"X", "pass", "_", "2", "5", "_">> >>,
          << <<"A", "sink", "_", "_">>, <<"B", "pass", "_", "_", "03">> >>,
          << <<"A", "source", "_", "_">>, <<"B", "sink", "_">> >>,
          << <<"A", "source", "_", "_", "1", "2", "3">>, <<"B", "sink", "_", "_">> >>}

\* Edge sections: none, one edge, the same pair twice, an endpoint that the
\* vertex section does not list.
EdgeSections(v) ==
  IF v = "network"
    THEN {<<>>,
          << <<"A", "B", "3", "1", "2", "5">> >>,
          << <<"A", "B", "3", "1", "2", "5">>, <<"B", "A", "4", "0", "0", "-1">> >>,
          << <<"A", "C", "2", "0", "0", "1">> >>}
    ELSE {<<>>,
          << <<"A", "B", "3">> >>,
          << <<"A", "B", "3">>, <<"B", "A", "4">> >>,
          << <<"A", "C", "2">> >>}

\* What follows the edge records: the terminator, the info line of `extra`
\* and lines the executor may have left after them.
Tails(v) ==
  {<< <<"end">> >>,
   << <<"extra">>, <<"Distance:", "3">> >>,
   << <<"extra">> >>,
   << <<"end">>, <<"C">> >>,
   << <<"extra">>, <<"Distance:", "3">>,
      IF v = "network" THEN <<"B", "C", "1", "0", "0", "1">> ELSE <<"B", "C", "1">> >>}

ParseFiles(v) ==
  {<< <<h>>, <<"vertices">> >> \o vs \o << <<"edges">> >> \o es \o t :
     h \in Headers(v), vs \in VertexSections(v), es \in EdgeSections(v),
     t \in Tails(v)}

\* A set as a sequence, in some order.
RECURSIVE SeqOf(_)
SeqOf(S) ==
  IF S = {} THEN <<>>
  ELSE LET x == CHOOSE y \in S : TRUE IN <<x>> \o SeqOf(S \ {x})

\* What is written in a record for an attribute that may be missing.
Field(o) == IF IsNone(o) THEN "_" ELSE Get(o)

\* The vertex record of vertex n of model G in the result format of editor v.
IdentityVertex(v, G, n) ==
  LET a == G.node[n] IN
  CASE v = "graph" -> <<n>>
    [] v = "digraph" -> <<n, Field(a.name)>>
    [] v = "network" ->
         IF ~IsNone(a.flow)
           THEN <<n, Field(a.type), "_", "_", str(Get(a.flow))>>
         ELSE IF ~IsNone(a.min_flow)
           THEN <<n, Field(a.type), "_", str(Get(a.min_flow)),
                  str(Get(a.max_flow)), "_">>
         ELSE <<n, Field(a.type), "_", "_">>

\* The edge record of edge k of model G.
IdentityEdge(v, G, k) ==
  LET a == G.adj[k] IN
  IF v = "network"
    THEN <<k[1], k[2], str(Get(a.weight)), str(Get(a.restriction)),
           str(Get(a.flow)), str(Get(a.cost))>>
    ELSE <<k[1], k[2], str(Get(a.weight))>>

\* One key per edge: an undirected edge is written once.
EdgesOnce(G) ==
  {k \in DOMAIN G.adj :
     G.directed \/ k = (CHOOSE j \in EdgeKeys(G, k[1], k[2]) : TRUE)}

\* The result file of an executor that hands the model back as it got it:
\* the vertices, edges and attributes of G in the grammar of the result file.
IdentityFile(v, G) ==
  LET vs == SeqOf(DOMAIN G.node)
      es == SeqOf(EdgesOnce(G))
  IN << <<v>>, <<"vertices">> >>
       \o [i \in 1..Len(vs) |-> IdentityVertex(v, G, vs[i])]
       \o << <<"edges">> >>
       \o [i \in 1..Len(es) |-> IdentityEdge(v, G, es[i])]
       \o << <<"end">> >>

\* What the executor may do on the run of a SpecParse session.
ParseOutcomes ==
  {[started |-> TRUE, file |-> Some(f)] :
     f \in ParseFiles(variant) \cup {IdentityFile(variant, Cur)}}

\* Identifier texts of these sessions: `edges` is a word of the result
\* grammar.
ParseTexts == Ids \cup {"edges"}

\* Weights typed into the numeric field, a negative one among them.
ParseNumbers == {Some(w) : w \in Weights} \cup {Some(-1)}

\* The add commands that build the model.
BuildModel ==
  /\ cmd.op # "run"
  /\ \E btn \in ButtonVectors :
       \/ \E v \in ParseTexts : AddVertex(btn, v)
       \/ \E e \in {<<"A", "B">>, <<"B", "A">>}, w \in ParseNumbers :
            AddEdge(btn, e[1], e[2], w)
       \/ \E input \in {<<"A">>, <<"B", "1", "2">>, <<"edges", "5">>} :
            AddVertexN(btn, input)
       \/ \E w \in ParseNumbers :
            AddEdgeN(btn, "A", "B", w, Some(0), Some(-1))

\* The one run of the session.
RunOnce ==
  /\ cmd.op # "run"
  /\ \E btn \in ButtonVectors, i \in RunInputs[variant] :
       RunOn(btn, i[1], i[2], ParseOutcomes)

NextParse == BuildModel \/ RunOnce
SpecParse == Init /\ [][NextParse]_vars

\* ------------------------------------------- the parser, line by line
\* Everything but reader.
App ==
  <<variant, current, original, shared, file_id, info, raised, final, saved,
    buttons, cmd, hist>>

\* Files a parser may be called on: those of ParseFiles, the well-formed
\* file cut after each of its lines (no `edges` line, no terminator, no
\* line at all), and the well-formed file with a blank line in each place.
CutFiles(v) == {SubSeq(OkFile(v), 1, n) : n \in 0..Len(OkFile(v))}

BlankFiles(v) ==
  {SubSeq(OkFile(v), 1, n) \o << <<>> >> \o SubSeq(OkFile(v), n + 1, Len(OkFile(v))) :
     n \in 0..Len(OkFile(v))}

LoadFiles(v) == ParseFiles(v) \cup CutFiles(v) \cup BlankFiles(v)

\* The number of lines consumed after one more readline: at end of file the
\* position stays where it is.
Advance(f, pos) == IF pos < Len(f) THEN pos + 1 ELSE pos

\* The model the header makes each parser start from, None when the
\* parser takes the not-a-graph branch.
StartOf(v, header) ==
  CASE v = "graph" ->
         IF header = "graph" THEN Some(Graph)
         ELSE IF header = "digraph" THEN Some(DiGraph)
         ELSE None
    [] v = "digraph" -> IF header = "digraph" THEN Some(DiGraph) ELSE None
    [] v = "network" -> IF header = "exception" THEN None ELSE Some(DiGraph)

\* The parser returns or raises.
Stop(f, n, r) ==
  [reader EXCEPT !.at = "done", !.pos = n, !.out = Some(r)]

\* `with open(...) as f`: a call of the editor's parser begins.
Open ==
  /\ reader.at = "idle"
  /\ \E f \in LoadFiles(variant) :
       reader' = [at |-> "header", file |-> f, pos |-> 0,
                  graph |-> Empty(variant), out |-> None]
  /\ UNCHANGED App

\* The header line; then `graph = f.readline()` of the not-a-graph branch
\* or `f.readline()` that skips the vertex header.
ReadHeader ==
  /\ reader.at = "header"
  /\ LET f == reader.file
         item == readline(f, reader.pos + 1)
         two == Advance(f, Advance(f, reader.pos))
     IN reader' =
          IF item = <<>>
            THEN Stop(f, Advance(f, reader.pos), Raise("IndexError", 1))
          ELSE IF IsNone(StartOf(variant, item[1]))
            THEN Stop(f, two, ExceptionResult(f))
          ELSE [reader EXCEPT !.at = "vertices", !.pos = two,
                              !.graph = Get(StartOf(variant, item[1]))]
  /\ UNCHANGED App

\* One turn of the vertex loop.
VertexStep ==
  /\ reader.at = "vertices"
  /\ LET f == reader.file
         i == reader.pos + 1
         item == readline(f, i)
         r == VertexRecord(variant, reader.graph, item)
     IN reader' =
          IF item = <<>> THEN Stop(f, Advance(f, reader.pos), Raise("IndexError", i))
          ELSE IF item[1] = "edges"
            THEN [reader EXCEPT !.at = "edges", !.pos = Advance(f, reader.pos)]
          ELSE IF r.exc # ""
            THEN Stop(f, Advance(f, reader.pos), Raise(r.exc, i))
          ELSE [reader EXCEPT !.pos = Advance(f, reader.pos), !.graph = r.graph]
  /\ UNCHANGED App

\* One turn of the edge loop; on `extra` the line after it is the info.
EdgeStep ==
  /\ reader.at = "edges"
  /\ LET f == reader.file
         i == reader.pos + 1
         item == readline(f, i)
         r == EdgeRecord(variant, reader.graph, item)
         one == Advance(f, reader.pos)
     IN reader' =
          IF item = <<>> THEN Stop(f, one, Raise("IndexError", i))
          ELSE IF item[1] = "extra"
            THEN Stop(f, Advance(f, one),
                      Return(reader.graph, TRUE, readline(f, i + 1), i + 1))
          ELSE IF item[1] = "end"
            THEN Stop(f, one, Return(reader.graph, TRUE, <<>>, i))
          ELSE IF r.exc # "" THEN Stop(f, one, Raise(r.exc, i))
          ELSE [reader EXCEPT !.pos = one, !.graph = r.graph]
  /\ UNCHANGED App

\* The statements of a parser call, which run one after the other once the
\* call has begun.
ReadStep == ReadHeader \/ VertexStep \/ EdgeStep

NextLoad == Open \/ ReadHeader \/ VertexStep \/ EdgeStep
SpecLoad == Init /\ [][NextLoad]_vars /\ WF_vars(ReadStep)

\* ------------------------------------------------------------ properties
EditOps == {"add_vertex", "add_edge", "rm_vertex", "rm_edge"}

\* The step is a run attempt: the branch went as far as save_graph.
RunAttempt == cmd'.op = "run" /\ cmd'.exec # "skipped"

\* The step is a run whose executor left a result file to be parsed, and
\* that file is `f`.
RunRead(f) ==
  /\ cmd'.op = "run"
  /\ cmd'.exec \in {"wrote", "nowrite"}
  /\ final'[file_id] = Some(f)

\* C1: after a run that ended in the executor's `exception`, followed by
\* add/remove commands only, reset makes the value of current the value it
\* had when that run was attempted.
C1_RollbackAfterFailedRun ==
  [][(cmd'.op = "reset" /\ hist.res = "exception" /\ hist.since = "edit")
       => Cur' = Get(hist.pre)]_vars

\* C2: after two successful runs in a row (edits allowed before, between and
\* after them), reset makes the value of current the value it had when the
\* SECOND run was attempted, and a reset that follows a reset changes
\* nothing of current.
C2_RollbackIsSingleStep ==
  [][cmd'.op = "reset"
       => /\ (hist.res = "ok2" /\ hist.since # "other") => Cur' = Get(hist.pre)
          /\ cmd.op = "reset" => Cur' = Cur]_vars

\* A reset has just undone the second of two successful runs: current is the
\* model the first run produced (the weight-3 edge comes from its result
\* file only), not what the user had built before the first run.
C2_Witness ==
  /\ cmd = [op |-> "reset", exec |-> "ok2"]
  /\ file_id = 1
  /\ has_edge(Cur, "A", "B")
  /\ Cur.adj[<<"A", "B">>].weight = Some(3)

\* C3: an add/remove command leaves the value of original and file_id as
\* they were, in every state.
C3_EditLeavesOriginal ==
  [][cmd'.op \in EditOps => (Orig' = Orig /\ file_id' = file_id)]_vars

\* C4: the empty command leaves current without vertices and edges, and
\* leaves the value of original and file_id as they were, in every state.
C4_ClearLeavesOriginal ==
  [][cmd'.op = "empty"
       => /\ number_of_nodes(Cur') = 0
          /\ number_of_edges(Cur') = 0
          /\ Orig' = Orig
          /\ file_id' = file_id]_vars

\* C5: a run whose result file parses to a model makes that model the value
\* of current and adds exactly one to file_id; a run whose result file
\* parses to an error message leaves file_id as it was.
C5_RunCommits ==
  [][cmd'.op = "run" =>
     \A f \in ResultFiles(variant) :
       RunRead(f) =>
         LET r == Load(Some(f)) IN
         /\ (r.exc = "" /\ r.isGraph) => (Cur' = r.result /\ file_id' = file_id + 1)
         /\ (r.exc = "" /\ ~r.isGraph) => file_id' = file_id]_vars

\* A run has committed the model of a result file over a different model.
C5_Witness ==
  /\ cmd.op = "run"
  /\ hist.res \in {"ok", "ok2"}
  /\ file_id = 2
  /\ Cur = Load(Some(OkFile(variant))).result
  /\ Cur # Get(hist.pre)

\* The first token of a file's first line.
Header(f) == f[1][1]

\* C6: on a result file whose first token is `exception`, each of the three
\* parsers returns not-a-graph with the second line as the message and has
\* read exactly two lines; the run that parsed the file puts that line in
\* info and leaves the value of current as it was.
C6_ExceptionPassthrough ==
  [][cmd'.op = "run" =>
     \A f \in ResultFiles(variant) :
       (RunRead(f) /\ Header(f) = "exception") =>
         /\ \A r \in {load_graph(Some(f)), load_digraph(Some(f)),
                      load_network(Some(f))} :
              r.exc = "" /\ ~r.isGraph /\ r.result = f[2] /\ r.pos = 2
         /\ info' = f[2]
         /\ raised' = ""
         /\ Cur' = Cur]_vars

\* A run has reported the executor's message over a model that has an edge.
C6_Witness ==
  /\ cmd.op = "run"
  /\ hist.res = "exception"
  /\ info = <<"No", "path", "exists.">>
  /\ number_of_edges(Cur) = 1
  /\ Cur = Get(hist.pre)

\* C7: reset binds current to the object original names and takes one off
\* file_id when file_id is at least 2; at file_id = 1 it stays 1.
C7_Rollback ==
  [][cmd'.op = "reset"
       => /\ Cur' = Orig
          /\ shared'
          /\ file_id >= 2 => file_id' = file_id - 1
          /\ file_id = 1 => file_id' = 1]_vars

\* A reset has taken file_id from 2 to 1 and brought back a model that is
\* not the one the run had committed.
C7_Witness ==
  /\ cmd.op = "reset"
  /\ cmd.exec = "ok2"
  /\ file_id = 1
  /\ number_of_nodes(Cur) = 1

\* C8: no run attempt uses a file_id that an earlier run attempt of the
\* session has used for its <file_id>.json / <file_id>-final.txt pair.
C8_FileIdNeverReused ==
  [][RunAttempt => file_id \notin saved]_vars

\* C9: a run whose executor produced no result file ends in a raised error,
\* with nothing shown in info and the value of current and file_id as they
\* were: no earlier result file is committed or reported.
C9_NoResultFileIsAFailure ==
  [][(cmd'.op = "run" /\ cmd'.exec \in {"nostart", "nowrite"})
       => /\ raised' # ""
          /\ info' = <<>>
          /\ Cur' = Cur
          /\ file_id' = file_id]_vars

\* C10: a run that reads a result file with a malformed edge record leaves
\* the value of current and file_id as they were.
C10_MalformedLeavesCurrent ==
  [][cmd'.op = "run" =>
     \A f \in MalformedFiles(variant) :
       RunRead(f) => (Cur' = Cur /\ file_id' = file_id)]_vars

\* A run has failed on a malformed record while current held an edge.
C10_Witness ==
  /\ cmd.op = "run"
  /\ cmd.exec = "wrote"
  /\ raised = "ValueError"
  /\ final[file_id] \in {Some(f) : f \in MalformedFiles(variant)}
  /\ number_of_edges(Cur) = 1

\* The branch of the elif chain behind each button, in declaration order.
Branch ==
  <<"add_vertex", "add_edge", "rm_vertex", "rm_edge", "run", "reset", "empty">>

\* The last step was an invocation of the callback.
Invoked == cmd.op \notin {"init", "display_page"}

\* C11: no command ends with an error that leaves the callback unhandled.
C11_NoErrorEscapes == raised = ""

\* Button i carries the maximum timestamp (absent counted as 0) and no
\* button declared before it carries as much.
FirstMax(i) ==
  /\ \A j \in 1..7 : Stamp(buttons[j]) <= Stamp(buttons[i])
  /\ \A j \in 1..(i - 1) : Stamp(buttons[j]) < Stamp(buttons[i])

\* C12: the branch a callback invocation takes is the one of the button
\* with the maximum timestamp, the first-declared one on equal maxima; with
\* add_vertex 0, add_edge 5, remove_vertex 0 it is add_edge.
C12_ArbitrationPicksFirstMax ==
  Invoked =>
    /\ \A i \in 1..7 : cmd.op = Branch[i] => FirstMax(i)
    /\ \A i \in 1..7 : (FirstMax(i) /\ ~IsNone(buttons[i])) => cmd.op = Branch[i]

\* add_edge has run on the timestamps add_vertex 0, add_edge 5,
\* remove_vertex 0 and has added an edge.
C12_Witness ==
  /\ cmd.op = "add_edge"
  /\ buttons[BtnVertex] = Some(0)
  /\ buttons[BtnEdge] = Some(5)
  /\ buttons[BtnRmV] = Some(0)
  /\ info = <<>>
  /\ number_of_edges(Cur) = 1

\* What a command can change besides the message: the session's models,
\* file_id and the interchange files.
Effects == <<current, original, shared, file_id, final, saved>>

\* C13: a callback invocation with no timestamp present changes none of
\* current, original and file_id and writes no interchange file.
C13_AllAbsentDoesNothing ==
  [][(Invoked' /\ buttons' = NoButton) => UNCHANGED Effects]_vars

\* The callback has been invoked with no timestamp on a session that has a
\* model and a committed run: nothing of them has moved.
C13_Witness ==
  /\ cmd.op = "idle"
  /\ buttons = NoButton
  /\ number_of_nodes(Cur) = 2
  /\ file_id = 1

\* The step is the branch of button i, invoked with timestamps btn and
\* some field values.
Selected(btn, i) ==
  CASE i = BtnVertex ->
         IF variant = "network"
           THEN \E input \in NetVertexInputs : AddVertexN(btn, input)
           ELSE \E v \in Texts : AddVertex(btn, v)
    [] i = BtnEdge ->
         IF variant = "network"
           THEN \E e \in EdgeInputs, n \in NetEdgeNumbers :
                  AddEdgeN(btn, e[1], e[2], n[1], n[2], n[3])
           ELSE \E e \in EdgeInputs, w \in Numbers : AddEdge(btn, e[1], e[2], w)
    [] i = BtnRmV -> \E v \in Texts : RemoveVertex(btn, v)
    [] i = BtnRmE -> \E e \in EdgeInputs : RemoveEdge(btn, e[1], e[2])
    [] i = BtnRun -> \E r \in RunInputs[variant] : Run(btn, r[1], r[2])
    [] i = BtnReset -> Reset(btn)
    [] i = BtnEmpty -> EmptyGraph(btn)

\* C14: a callback invocation either changes nothing of the session or is
\* exactly the branch of the selected button applied once; the branch of a
\* button that was not selected never acts.
C14_AtMostOneCommand ==
  [][Invoked' =>
       \/ UNCHANGED Effects
       \/ \E i \in 1..7 : FirstMax(i)' /\ Selected(buttons', i)]_vars

\* add_vertex was selected over clear (equal timestamps) and failed on a
\* duplicate identifier: the model still has its vertices.
C14_Witness ==
  /\ cmd.op = "add_vertex"
  /\ buttons[BtnVertex] = Some(5)
  /\ buttons[BtnEmpty] = Some(5)
  /\ info = <<"Vertex ", "A", " is already on the ", Noun, ".">>
  /\ number_of_nodes(Cur) = 2

\* The step is an edit branch whose field-level validation fails: an empty
\* identifier field, a null numeric field or, for the network, a capacity or
\* restriction out of range.
FieldValidationFails ==
  \/ variant # "network" /\ AddVertex(buttons', "")
  \/ \E e \in EdgeInputs, w \in Numbers :
       /\ variant # "network"
       /\ "" \in {e[1], e[2]} \/ IsNone(w)
       /\ AddEdge(buttons', e[1], e[2], w)
  \/ \E e \in EdgeInputs, n \in NetEdgeNumbers :
       /\ variant = "network"
       /\ \/ "" \in {e[1], e[2]}
          \/ \E k \in 1..3 : IsNone(n[k])
          \/ Get(n[1]) < Get(n[2]) \/ Get(n[2]) < 0 \/ Get(n[1]) < 0
       /\ AddEdgeN(buttons', e[1], e[2], n[1], n[2], n[3])
  \/ RemoveVertex(buttons', "")
  \/ \E e \in EdgeInputs :
       "" \in {e[1], e[2]} /\ RemoveEdge(buttons', e[1], e[2])

\* C15: a selected edit whose field-level validation fails leaves the model
\* as it was and leaves a non-empty message in info.
C15_ValidationFailureHasMessage ==
  [][FieldValidationFails => (Cur' = Cur /\ info' # <<>>)]_vars

\* The vertex identifiers of a model; a model holds one entry per
\* identifier.
Vertices(G) == DOMAIN G.node

\* C16: an add-vertex whose identifier is already a vertex of current leaves
\* the model (vertices, edges, attributes) as it was and says that the
\* vertex is already on the graph; no command makes a second vertex of an
\* identifier.
C16_DuplicateVertexRejected ==
  [][\A v \in Ids :
       (v \in Vertices(Cur) /\ AddVertex(buttons', v)) =>
         /\ Cur' = Cur
         /\ number_of_nodes(Cur') = Cardinality(Vertices(Cur))
         /\ info' = <<"Vertex ", v, " is already on the ", Noun, ".">>]_vars

\* add_vertex has been refused for a vertex that has an edge.
C16_Witness ==
  /\ cmd.op = "add_vertex"
  /\ info = <<"Vertex ", "B", " is already on the ", Noun, ".">>
  /\ has_edge(Cur, "A", "B")

\* The message about the endpoints among s, t that are not vertices of G.
NotOnMessage(G, s, t) ==
  IF s \notin Vertices(G) /\ t \notin Vertices(G)
    THEN <<"Vertices ", s, " and ", t, " are not on the ", Noun, ".">>
    ELSE <<"Vertex ", CHOOSE m \in {s, t} : m \notin Vertices(G),
           " is not on the ", Noun, ".">>

\* C18: add-edge with filled fields and an endpoint that is not a vertex of
\* current leaves the model as it was, creates no vertex, and names the
\* missing vertex or vertices in the message.
C18_UnknownEndpointRejected ==
  [][\A e \in EdgeInputs, w \in Weights :
       (/\ e[1] # "" /\ e[2] # ""
        /\ {e[1], e[2]} \ Vertices(Cur) # {}
        /\ AddEdge(buttons', e[1], e[2], Some(w))) =>
         /\ Cur' = Cur
         /\ Vertices(Cur') = Vertices(Cur)
         /\ info' = NotOnMessage(Cur, e[1], e[2])]_vars

\* add_edge has been refused because B is not a vertex, and B has not been
\* created.
C18_Witness ==
  /\ cmd.op = "add_edge"
  /\ info = <<"Vertex ", "B", " is not on the ", Noun, ".">>
  /\ Vertices(Cur) = {"A"}

\* Both endpoints of every edge of G are vertices of G.
EndpointsAreVertices(G) ==
  \A k \in DOMAIN G.adj : k[1] \in Vertices(G) /\ k[2] \in Vertices(G)

\* C19: remove-vertex of a present vertex removes it with every edge
\* incident to it and nothing else; of an absent identifier it leaves the
\* model as it was and sets a message; after every step both endpoints of
\* every edge of current are vertices of current.
C19_RemoveVertexTakesIncidentEdges ==
  [][/\ EndpointsAreVertices(Cur')
     /\ \A v \in Ids :
          RemoveVertex(buttons', v) =>
            IF v \in Vertices(Cur)
              THEN /\ Vertices(Cur') = Vertices(Cur) \ {v}
                   /\ DOMAIN Cur'.adj =
                        {k \in DOMAIN Cur.adj : k[1] # v /\ k[2] # v}
                   /\ \A k \in DOMAIN Cur'.adj : Cur'.adj[k] = Cur.adj[k]
              ELSE /\ Cur' = Cur
                   /\ info' = <<"Vertex ", v, " is not on the ", Noun, ".">>]_vars

\* remove_vertex has taken A out of the model whose run had just been
\* attempted with the edge A-B in it: B is left, without an edge.
C19_Witness ==
  /\ cmd.op = "rm_vertex"
  /\ info = <<>>
  /\ hist.since = "edit"
  /\ ~IsNone(hist.pre)
  /\ has_edge(Get(hist.pre), "A", "B")
  /\ Vertices(Cur) = {"B"}
  /\ number_of_edges(Cur) = 0

\* The pair s, t has an edge in G: the ordered pair in a directed model,
\* either order in an undirected one.
PairHasEdge(G, s, t) ==
  \/ <<s, t>> \in DOMAIN G.adj
  \/ ~G.directed /\ <<t, s>> \in DOMAIN G.adj

\* An undirected model holds each edge once: the two directions of a pair
\* are present together and carry the same attributes.
OneEdgePerPair(G) ==
  G.directed \/
    \A k \in DOMAIN G.adj :
      <<k[2], k[1]>> \in DOMAIN G.adj /\ G.adj[<<k[2], k[1]>>] = G.adj[k]

CapacityHolds(G) ==
  \A k \in DOMAIN G.adj :
    (~IsNone(G.adj[k].weight) /\ ~IsNone(G.adj[k].restriction)) =>
      /\ 0 <= Get(G.adj[k].restriction)
      /\ Get(G.adj[k].restriction) <= Get(G.adj[k].weight)

\* C17: in every reachable state of a network session every edge of current
\* has 0 <= restriction <= weight.
C17_CapacityInvariant == variant = "network" => CapacityHolds(Cur)

\* C21: an add-edge submitted with a negative weight (capacity, in the
\* network editor) leaves the model as it was, in all three editors.
C21_NegativeWeightRejected ==
  [][\A e \in {<<"A", "B">>, <<"B", "A">>}, w \in ParseNumbers :
       (/\ Get(w) < 0
        /\ \/ AddEdge(buttons', e[1], e[2], w)
           \/ AddEdgeN(buttons', e[1], e[2], w, Some(0), Some(-1)))
         => Cur' = Cur]_vars

\* C23: entering the editor's page leaves current and original empty and
\* file_id at 0, whatever the session went through before.
C23_SessionEmptyAtEntry ==
  [][cmd'.op = "display_page"
       => /\ Cur' = Empty(variant)
          /\ Orig' = Empty(variant)
          /\ file_id' = 0]_vars

\* The role the degrees of v give in G: source without an incoming edge,
\* else sink without an outgoing edge, else pass.
DegreeRole(G, v) ==
  IF \A k \in DOMAIN G.adj : k[2] # v THEN "source"
  ELSE IF \A k \in DOMAIN G.adj : k[1] # v THEN "sink"
  ELSE "pass"

\* Vertex v of G carries the role of its degrees, and a label that starts
\* with the sign of that role ("+ " source, "- " sink, none for pass)
\* followed by the identifier.
RoleIsCurrent(G, v) ==
  LET a == G.node[v]
      r == DegreeRole(G, v)
      sign == IF r = "source" THEN <<"+ ">> ELSE IF r = "sink" THEN <<"- ">> ELSE <<>>
  IN /\ a.type = Some(r)
     /\ ~IsNone(a.info)
     /\ Len(Get(a.info)) >= Len(sign) + 1
     /\ SubSeq(Get(a.info), 1, Len(sign) + 1) = sign \o <<v>>

\* C22: in every reachable state of a network session every vertex of
\* current has the role of its in- and out-degree and a label of that role.
C22_RoleInvariant ==
  variant = "network" => \A v \in Vertices(Cur) : RoleIsCurrent(Cur, v)

\* A run has committed the result file that calls A a sink and B a pass
\* vertex with the one edge A -> B: A is a source and B a sink in current.
C22_Witness ==
  /\ variant = "network"
  /\ cmd.op = "run"
  /\ final[0] = Some(OkFile("network"))
  /\ file_id = 1
  /\ Cur.node["A"].type = Some("source")
  /\ Cur.node["B"].type = Some("sink")
  /\ Cur.node["B"].info = Some(<<"- ", "B", ", ", "10">>)

\* The layout of a result file that has its `edges` line and its
\* terminator: the numbers of those two lines, and of the records between.
EdgesLine(f) ==
  CHOOSE i \in 3..Len(f) :
    f[i][1] = "edges" /\ \A j \in 3..(i - 1) : f[j][1] # "edges"

TerminatorLine(f) ==
  CHOOSE i \in (EdgesLine(f) + 1)..Len(f) :
    /\ f[i][1] \in {"extra", "end"}
    /\ \A j \in (EdgesLine(f) + 1)..(i - 1) : f[j][1] \notin {"extra", "end"}

VertexLines(f) == 3..(EdgesLine(f) - 1)
EdgeLines(f) == (EdgesLine(f) + 1)..(TerminatorLine(f) - 1)

\* The identifiers a file lists in its vertex section, and those its edge
\* records name.
ListedVertices(f) == {f[i][1] : i \in VertexLines(f)}
NamedEndpoints(f) == {f[i][1] : i \in EdgeLines(f)} \cup {f[i][2] : i \in EdgeLines(f)}

\* C24: on a result file with the header `graph` the graph parser returns an
\* undirected model; its vertices are the listed identifiers (with the
\* endpoints the edge records name, which a file listing all its vertices
\* has among them), its edges are the listed pairs, each with the integer
\* weight of the last record that lists the pair; the run commits that model.
C24_GraphParse ==
  [][cmd'.op = "run" =>
     \A f \in ParseFiles("graph") :
       (variant = "graph" /\ RunRead(f) /\ Header(f) = "graph") =>
         LET r == load_graph(Some(f))
             G == r.result
         IN /\ r.exc = "" /\ r.isGraph
            /\ ~G.directed
            /\ Vertices(G) = ListedVertices(f) \cup NamedEndpoints(f)
            /\ {{k[1], k[2]} : k \in DOMAIN G.adj}
                 = {{f[i][1], f[i][2]} : i \in EdgeLines(f)}
            /\ number_of_edges(G)
                 = Cardinality({{f[i][1], f[i][2]} : i \in EdgeLines(f)})
            /\ \A i \in EdgeLines(f) :
                 (\A j \in EdgeLines(f) :
                    j > i => {f[j][1], f[j][2]} # {f[i][1], f[i][2]})
                   => /\ G.adj[<<f[i][1], f[i][2]>>].weight = Some(int(f[i][3]))
                      /\ G.adj[<<f[i][2], f[i][1]>>].weight = Some(int(f[i][3]))
            /\ Cur' = G]_vars

\* The run of a graph session has read the file of the spec's example
\* (vertices A, B, edge `A B 3`) over a model with the vertex `edges`:
\* current has 2 vertices and 1 undirected edge of weight 3.
C24_Witness ==
  /\ variant = "graph"
  /\ cmd.op = "run"
  /\ final[0] = Some(OkFile("graph"))
  /\ has_node(Get(hist.pre), "edges")
  /\ Vertices(Cur) = {"A", "B"}
  /\ number_of_edges(Cur) = 1
  /\ ~Cur.directed
  /\ Cur.adj[<<"B", "A">>].weight = Some(3)

\* C25: the network parser decodes a vertex record by its number of fields:
\* 4 fields give a vertex without flow attributes, 5 fields one whose flow
\* is the integer of the 5th field, 6 fields one whose min_flow and max_flow
\* are the integers of the 4th and 5th fields; the committed model carries
\* the same flow attributes.
C25_NetworkVertexRecords ==
  [][cmd'.op = "run" =>
     \A f \in ParseFiles("network") :
       (variant = "network" /\ RunRead(f) /\ Header(f) # "exception") =>
         LET r == load_network(Some(f)) IN
         /\ r.exc = "" /\ r.isGraph
         /\ \A i \in VertexLines(f) :
              Len(f[i]) \in {4, 5, 6} =>
                \A G \in {r.result, Cur'} :
                  LET a == G.node[f[i][1]] IN
                  /\ Len(f[i]) = 4 =>
                       IsNone(a.flow) /\ IsNone(a.min_flow) /\ IsNone(a.max_flow)
                  /\ Len(f[i]) = 5 =>
                       /\ a.flow = Some(int(f[i][5]))
                       /\ IsNone(a.min_flow) /\ IsNone(a.max_flow)
                  /\ Len(f[i]) = 6 =>
                       /\ a.min_flow = Some(int(f[i][4]))
                       /\ a.max_flow = Some(int(f[i][5]))
                       /\ IsNone(a.flow)]_vars

\* The run of a network session has read the records `S source _ _ 10` and
\* `X pass _ 2 5 _`: S has flow 10, X has min_flow 2 and max_flow 5.
C25_Witness ==
  /\ variant = "network"
  /\ cmd.op = "run"
  /\ file_id = 1
  /\ Vertices(Cur) = {"S", "X"}
  /\ Cur.node["S"].flow = Some(10)
  /\ Cur.node["X"].min_flow = Some(2)
  /\ Cur.node["X"].max_flow = Some(5)
  /\ IsNone(Cur.node["X"].flow)

\* C26: a network result file with a vertex record of a field count other
\* than 4, 5 or 6 does not parse to a model, and the run that reads it
\* leaves current as it was.
C26_OddVertexRecordFails ==
  [][cmd'.op = "run" =>
     \A f \in ParseFiles("network") :
       (/\ variant = "network" /\ RunRead(f) /\ Header(f) # "exception"
        /\ \E i \in VertexLines(f) : Len(f[i]) \notin {4, 5, 6}) =>
         LET r == load_network(Some(f)) IN
         /\ ~(r.exc = "" /\ r.isGraph)
         /\ Cur' = Cur]_vars

\* A file cut after line n.
Truncated(f, n) == SubSeq(f, 1, n)

\* C27: each parser that returns a model for a file has read its edge
\* records up to the first line that starts with `extra` or `end`; on
\* `extra` the trailing info is the line after it, on `end` it is empty; the
\* lines after that contribute nothing: the model is the one of the file cut
\* there. The run shows that info and commits that model.
C27_TerminatorEndsTheModel ==
  [][cmd'.op = "run" =>
     \A f \in ParseFiles(variant) :
       RunRead(f) =>
         LET t == TerminatorLine(f)
             last == IF f[t][1] = "extra" THEN t + 1 ELSE t
             cut == Truncated(f, IF last <= Len(f) THEN last ELSE Len(f))
         IN /\ \A load \in {"graph", "digraph", "network"} :
                 LET r == CASE load = "graph" -> load_graph(Some(f))
                            [] load = "digraph" -> load_digraph(Some(f))
                            [] load = "network" -> load_network(Some(f))
                     c == CASE load = "graph" -> load_graph(Some(cut))
                            [] load = "digraph" -> load_digraph(Some(cut))
                            [] load = "network" -> load_network(Some(cut))
                 IN (r.exc = "" /\ r.isGraph) =>
                      /\ r.info = IF f[t][1] = "extra" /\ t + 1 <= Len(f)
                                    THEN f[t + 1] ELSE <<>>
                      /\ r.pos = last
                      /\ c.exc = "" /\ c.isGraph /\ c.result = r.result
                      /\ Vertices(r.result) \subseteq
                           ListedVertices(f) \cup NamedEndpoints(f)
            /\ (Load(Some(f)).exc = "" /\ Load(Some(f)).isGraph) =>
                 info' = Load(Some(f)).info]_vars

\* A run has read a file whose `extra` line is followed by the info line
\* and then by an edge record naming C: the info is shown and C is not a
\* vertex of current.
C27_Witness ==
  /\ cmd.op = "run"
  /\ file_id = 1
  /\ Len(Get(final[0])) = TerminatorLine(Get(final[0])) + 2
  /\ info = <<"Distance:", "3">>
  /\ "C" \notin Vertices(Cur)
  /\ number_of_edges(Cur) = 1

\* C28: the digraph parser returns not-a-graph for every file whose header
\* token is not `digraph`, the header `graph` included, and the run of a
\* digraph session that reads such a file leaves current and file_id as they
\* were and raises nothing.
C28_DigraphRejectsOtherHeaders ==
  [][cmd'.op = "run" =>
     \A f \in ParseFiles("digraph") :
       (variant = "digraph" /\ RunRead(f) /\ Header(f) # "digraph") =>
         LET r == load_digraph(Some(f)) IN
         /\ r.exc = "" /\ ~r.isGraph
         /\ Cur' = Cur
         /\ file_id' = file_id
         /\ raised' = ""]_vars

\* The run of a digraph session that holds the edge A -> B has read a file
\* with the header `graph` that lists the edge B - A: current still is the
\* model with the one edge A -> B, and file_id is 0.
C28_Witness ==
  /\ variant = "digraph"
  /\ cmd.op = "run"
  /\ cmd.exec = "wrote"
  /\ Header(Get(final[0])) = "graph"
  /\ \E i \in EdgeLines(Get(final[0])) : Get(final[0])[i] = <<"B", "A", "4">>
  /\ file_id = 0
  /\ raised = ""
  /\ DOMAIN Cur.adj = {<<"A", "B">>}
  /\ Cur = Get(hist.pre)

\* C29: a run whose executor writes back the model it was given (the
\* vertices, edges and attributes of current in the result grammar) parses
\* to a model and commits a model equal to the one current held.
C29_RoundTrip ==
  [][cmd'.op = "run" =>
       (RunRead(IdentityFile(variant, Cur)) =>
          /\ raised' = ""
          /\ file_id' = file_id + 1
          /\ Cur' = Cur)]_vars

\* C30: every run that calls the executor hands it exactly four arguments:
\* the path save_graph has just returned, the generation of that path as a
\* string, the algorithm, and a fourth, algorithm-specific argument.
C30_FourArguments ==
  [][\A i \in RunInputs[variant] :
       (RunAttempt /\ Run(buttons', i[1], i[2])) =>
          LET argv == Argv(i[1], i[2]) IN
            /\ Len(argv) = 4
            /\ argv[1] = SavePath(file_id)
            /\ argv[2] = str(file_id)
            /\ argv[3] = i[1]]_vars

\* ------------------------------------------------- the vertex form
\* vertex_value.split('/') for texts typed into the vertex field, the ones
\* whose part before the first `/` is empty included.
SlashInputs ==
  {<<"A">>, <<"">>, <<"", "1">>, <<"", "0", "1">>, <<"B", "1", "2">>,
   <<"B", "2", "1">>, <<"B", "-1", "1">>}

\* Sessions that only add vertices and clear.
NextForms ==
  \E btn \in ButtonVectors :
    \/ \E v \in Texts : AddVertex(btn, v)
    \/ \E input \in SlashInputs : AddVertexN(btn, input)
    \/ EmptyGraph(btn)

SpecForms == Init /\ [][NextForms]_vars

\* C32: no add vertex command puts a vertex whose identifier is the empty
\* string into the model, whether the text is typed plainly or as id/flow
\* or id/min/max.
C32_NoEmptyIdentifier ==
  [][cmd'.op = "add_vertex" => (has_node(Cur', "") => has_node(Cur, ""))]_vars

\* C33: a run that goes as far as save_graph has written the input
\* document of file_id, whether or not the executor then starts; the only
\* result document a run changes is the one of file_id, a result the
\* executor wrote is the document of file_id, and the run ends the way the
\* parser ends on that document.
C33_RunKeepsToItsGeneration ==
  [][RunAttempt =>
       /\ file_id \in saved'
       /\ \A g \in DOMAIN final : g # file_id => final'[g] = final[g]
       /\ cmd'.exec = "wrote" => ~IsNone(final'[file_id])
       /\ cmd'.exec \in {"wrote", "nowrite"} =>
            LET r == Load(final'[file_id]) IN
              /\ raised' = r.exc
              /\ (r.exc = "" /\ r.isGraph) => file_id' = file_id + 1
              /\ (r.exc # "" \/ ~r.isGraph) => file_id' = file_id]_vars

\* A second run has committed: generations 0 and 1 were written and read.
C33_Witness ==
  /\ cmd.op = "run"
  /\ cmd.exec = "wrote"
  /\ raised = ""
  /\ file_id = 2
  /\ {0, 1} \subseteq saved
  /\ ~IsNone(final[0])
  /\ ~IsNone(final[1])

\* C34: file_id is never negative, no command moves it by more than one,
\* once it is 1 or more it stays 1 or more, and reset at 0 or at 1 leaves it
\* where it was.
C34_FileIdSteps ==
  [][/\ file_id >= 0
     /\ file_id' >= 0
     /\ file_id' - file_id \in {-1, 0, 1}
     /\ file_id >= 1 => file_id' >= 1
     /\ (cmd'.op = "reset" /\ file_id <= 1) => file_id' = file_id]_vars

\* A reset has come while file_id was 1, after the one run of the session
\* had committed, and file_id is still 1.
C34_Witness ==
  /\ cmd.op = "reset"
  /\ file_id = 1
  /\ saved = {0}

\* C35: a reset that comes before any run attempt of the session leaves
\* current the empty model and file_id 0.
C35_RollbackBeforeAnyRun ==
  [][(cmd'.op = "reset" /\ saved = {})
       => (Cur' = Empty(variant) /\ file_id' = 0)]_vars

\* C36: from a run that committed until the next run or reset, whatever
\* add, remove and empty commands come, original is the model current was
\* when that run was attempted.
C36_OriginalKeptAfterCommit ==
  hist.res \in {"ok", "ok2"} => Orig = Get(hist.pre)

\* After a committed run the committed model was emptied, and original
\* still holds the vertices of the model the run started from.
C36_Witness ==
  /\ cmd.op = "empty"
  /\ hist.res = "ok"
  /\ hist.since = "clear"
  /\ number_of_nodes(Orig) >= 1
  /\ Orig = Get(hist.pre)
  /\ Cur # Orig

\* C37: in the model a parser returns for a result file, both endpoints of
\* every edge are vertices, the vertices are the identifiers the vertex
\* section lists together with those the edge records name, and an
\* identifier that only an edge record names is a vertex with no
\* attributes.
C37_VerticesAreListedOrNamed ==
  [][cmd'.op = "run" =>
     \A f \in ParseFiles(variant) :
       RunRead(f) =>
         LET r == Load(Some(f)) IN
           (r.exc = "" /\ r.isGraph) =>
             /\ EndpointsAreVertices(r.result)
             /\ Vertices(r.result) = ListedVertices(f) \cup NamedEndpoints(f)
             /\ \A n \in NamedEndpoints(f) \ ListedVertices(f) :
                  r.result.node[n] = NoNodeAttrs]_vars

\* What a parser call leaves its caller with.
Outcome(r) ==
  [exc |-> r.exc, result |-> r.result, isGraph |-> r.isGraph, info |-> r.info]

\* C38: every parser call that has begun on a file comes to its end, and
\* ends the way the parser ends on that file: with a model, with the
\* executor's message, or with an exception; that covers the files cut
\* short (no `edges` line, no `end` or `extra` line) and those with a
\* blank line.
C38_ParserTerminates ==
  /\ [](reader.at = "done" =>
          /\ Outcome(Get(reader.out)) = Outcome(Load(Some(reader.file)))
          /\ reader.pos <= Len(reader.file))
  /\ (reader.at # "idle") ~> (reader.at = "done")

\* A call on a file that stops before any `edges` line has ended, with the
\* IndexError of the read past the last line.
C38_Witness ==
  /\ reader.at = "done"
  /\ Len(reader.file) = 4
  /\ \A i \in 1..4 : reader.file[i] # <<>> /\ reader.file[i][1] # "edges"
  /\ Get(reader.out).exc = "IndexError"
  /\ reader.pos = 4

\* C39: in the network editor an add vertex typed as id/min/max with
\* integers min and max, for an identifier not yet a vertex, adds the vertex
\* with those bounds when 0 <= min <= max and otherwise leaves the model as
\* it was and sets a message; every vertex an add vertex command adds has
\* type `source`, and bounds, if it has any, with 0 <= min_flow <= max_flow.
C39_RestrictionsValidated ==
  [][(variant = "network" /\ cmd'.op = "add_vertex") =>
       /\ \A input \in SlashInputs :
            (/\ Len(input) >= 3
             /\ IsIntToken(input[2]) /\ IsIntToken(input[3])
             /\ ~has_node(Cur, input[1])
             /\ AddVertexN(buttons', input)) =>
               IF 0 <= int(input[2]) /\ int(input[2]) <= int(input[3])
                 THEN /\ Vertices(Cur') = Vertices(Cur) \cup {input[1]}
                      /\ Cur'.node[input[1]].min_flow = Some(int(input[2]))
                      /\ Cur'.node[input[1]].max_flow = Some(int(input[3]))
                 ELSE /\ Cur' = Cur
                      /\ info' # <<>>
                      /\ raised' = ""
       /\ \A v \in Vertices(Cur') \ Vertices(Cur) :
            LET a == Cur'.node[v] IN
              /\ a.type = Some("source")
              /\ IsNone(a.min_flow) = IsNone(a.max_flow)
              /\ ~IsNone(a.min_flow) =>
                   (0 <= Get(a.min_flow) /\ Get(a.min_flow) <= Get(a.max_flow))]_vars

\* B was added with the bounds 1 and 2, and a later B/2/1 or B/-1/1 on a
\* network without B was turned down with the message.
C39_Witness ==
  /\ variant = "network"
  /\ cmd.op = "add_vertex"
  /\ info = <<"Invalid restrictions for vertex ", "B", ".">>
  /\ ~has_node(Cur, "B")
  /\ has_node(Cur, "A")

\* The path the parser of editor v opens for generation n: load_graph,
\* load_digraph and load_network format the same string.
FinalPath(v, n) ==
  CASE v = "graph" -> <<"./data/", str(n), "-final.txt">>
    [] v = "digraph" -> <<"./data/", str(n), "-final.txt">>
    [] v = "network" -> <<"./data/", str(n), "-final.txt">>

\* The two files a run of editor v uses for generation n; save_graph is the
\* one function the three editors call.
InterchangePaths(v, n) == {SavePath(n), FinalPath(v, n)}

\* C40: the files a run uses are not files a run of another editor uses
\* when that editor's file_id has the same value.
C40_EditorsKeepApart ==
  [][RunAttempt =>
       \A v \in Variants \ {variant} :
         InterchangePaths(v, file_id) \cap InterchangePaths(variant, file_id) = {}]_vars

\* ------------------------------------------------- two browser clients
\* Two clients with the graph editor open. A callback receives the
\* timestamps of the client that issued it; the clocks of the two clients'
\* clicks differ.
Clients == {1, 2}

Clock(c) == 4 + c

ClientVectors(c) == {[NoButton EXCEPT ![i] = Some(Clock(c))] : i \in 1..7}

\* What a client is shown by its next callback: the module's globals
\* current_graph, original_graph, file_id and info, whoever the client is.
Observed(c) == <<Cur, Orig, file_id, info>>

\* update_graph as the server runs it for either client (the vertex, run,
\* reset and empty branches).
NextClients ==
  \E c \in Clients : \E btn \in ClientVectors(c) :
    \/ \E v \in Ids : AddVertex(btn, v)
    \/ \E v \in Ids : RemoveVertex(btn, v)
    \/ \E i \in RunInputs[variant] : Run(btn, i[1], i[2])
    \/ Reset(btn)
    \/ EmptyGraph(btn)

SpecClients == InitOf("graph") /\ [][NextClients]_vars

\* C31: a command issued by one client leaves what the other client
\* observes (current, original, file_id, the message) as it was.
C31_ClientsShareNothing ==
  [][\A c \in Clients :
       buttons' \in ClientVectors(c) =>
         \A o \in Clients \ {c} : Observed(o)' = Observed(o)]_vars

====
